---- MODULE Spec2Model ----
(***************************************************************************)
(* Model of the transition-state estimate pipeline of rmgcat_to_sella:     *)
(* TS.prepare_ts_estimate = clear directory; prepare_react_list;           *)
(* TS_placer; filtered_out_equiv_ts_estimate (checkSymmBeforeXTB, delete,  *)
(* renumber).  Strings are sequences of one-character strings so that      *)
(* zfill, slicing, split and lexicographic sorting are computed as Python  *)
(* computes them.                                                          *)
(***************************************************************************)
EXTENDS Integers, Sequences, FiniteSets, TLC

\* ------------------------------------------------------------------ bounds
MaxSites == 2
MaxClass == 2
MaxRxns == 2

\* rotation increments (degrees) tried by the small specifications
RotAngles == {120, 180, 250, 400}

\* ------------------------------------------------------- strings as tuples
DigitChars == <<"0", "1", "2", "3", "4", "5", "6", "7", "8", "9">>

\* ASCII code of the characters that occur in file names
Ord(c) ==
  CASE c = "+" -> 43
    [] c = "." -> 46
    [] c = "0" -> 48 [] c = "1" -> 49 [] c = "2" -> 50 [] c = "3" -> 51
    [] c = "4" -> 52 [] c = "5" -> 53 [] c = "6" -> 54 [] c = "7" -> 55
    [] c = "8" -> 56 [] c = "9" -> 57
    [] c = "C" -> 67 [] c = "H" -> 72 [] c = "O" -> 79
    [] c = "_" -> 95
    [] c = "a" -> 97 [] c = "f" -> 102 [] c = "g" -> 103 [] c = "i" -> 105
    [] c = "j" -> 106 [] c = "k" -> 107 [] c = "l" -> 108 [] c = "n" -> 110
    [] c = "o" -> 111 [] c = "p" -> 112 [] c = "r" -> 114 [] c = "s" -> 115
    [] c = "t" -> 116 [] c = "u" -> 117
    [] c = "x" -> 120 [] c = "y" -> 121 [] c = "z" -> 122

DigitVal(c) == (CHOOSE d \in 1..10 : DigitChars[d] = c) - 1

\* Python str(n) for n >= 0
RECURSIVE Str(_)
Str(n) == IF n < 10 THEN <<DigitChars[n + 1]>>
          ELSE Str(n \div 10) \o <<DigitChars[(n % 10) + 1]>>

\* Python s.zfill(w): left-pad with '0' up to width w, never truncates
RECURSIVE zfill(_, _)
zfill(s, w) == IF Len(s) >= w THEN s ELSE zfill(<<"0">> \o s, w)

\* width used by str(...).zfill(3) in TS_placer, checkSymmBeforeXTB and the
\* renumbering pass, and by the slice noneqsites[3:]
PadWidth == 3

\* Python int(s) for a string of digits
RECURSIVE IntOf(_)
IntOf(s) == IF Len(s) = 0 THEN 0
            ELSE 10 * IntOf(SubSeq(s, 1, Len(s) - 1)) + DigitVal(s[Len(s)])

\* Python s[k:]
Drop(s, k) == SubSeq(s, k + 1, Len(s))

\* Python s[:k]
Take(s, k) == SubSeq(s, 1, IF k < Len(s) THEN k ELSE Len(s))

\* Python s.endswith(t)
EndsWith(s, t) == Len(s) >= Len(t) /\ SubSeq(s, Len(s) - Len(t) + 1, Len(s)) = t

\* Python s.split('_')[0]: everything before the first '_'
RECURSIVE SplitHead(_)
SplitHead(s) == IF Len(s) = 0 \/ s[1] = "_" THEN <<>>
                ELSE <<s[1]>> \o SplitHead(Tail(s))

\* Python string order: lexicographic by character code, a proper prefix first
RECURSIVE LessFrom(_, _, _)
LessFrom(a, b, i) ==
  IF i > Len(b) THEN FALSE
  ELSE IF i > Len(a) THEN TRUE
  ELSE IF a[i] = b[i] THEN LessFrom(a, b, i + 1)
  ELSE Ord(a[i]) < Ord(b[i])

StrLess(a, b) == LessFrom(a, b, 1)

\* sorted(names): the list of names in increasing string order
Sorted(names) == SortSeq(names, StrLess)

XyzExt == <<".", "x", "y", "z">>

Range(f) == {f[k] : k \in DOMAIN f}

\* ----------------------------------------------------------------- species
\* A species is a Gratoms object: element symbols in atom order plus bonds.
Sp(a, b) == [atoms |-> a, bonds |-> b]

spO    == Sp(<<"O">>, {})
spH    == Sp(<<"H">>, {})
spOH   == Sp(<<"O", "H">>, {{1, 2}})
spHO   == Sp(<<"H", "O">>, {{1, 2}})
spH2   == Sp(<<"H", "H">>, {{1, 2}})
spH2O  == Sp(<<"H", "H", "O">>, {{1, 3}, {2, 3}})
spCO   == Sp(<<"C", "O">>, {{1, 2}})
spHCO  == Sp(<<"C", "H", "O">>, {{1, 2}, {1, 3}})
spCO2  == Sp(<<"C", "O", "O">>, {{1, 2}, {1, 3}})
spHCOO == Sp(<<"C", "H", "O", "O">>, {{1, 2}, {1, 3}, {1, 4}})
spCH2O == Sp(<<"C", "H", "H", "O">>, {{1, 2}, {1, 3}, {1, 4}})
spCH3O == Sp(<<"C", "H", "H", "H", "O">>, {{1, 2}, {1, 3}, {1, 4}, {1, 5}})

\* one entry of the yaml reaction document; fail = "parse" makes
\* rmgcat_to_gratoms raise on this entry, fail = "species" makes
\* get_all_species raise for a species of this entry
Rx(r, p, f) == [reactant |-> r, product |-> p, fail |-> f]

rxOHdiss   == Rx(<<spOH>>, <<spO, spH>>, "none")
rxOHform   == Rx(<<spO, spH>>, <<spOH>>, "none")
rxDisprop  == Rx(<<spOH, spHO>>, <<spH2O, spO>>, "none")
rxHCO      == Rx(<<spHCO>>, <<spCO, spH>>, "none")
rxFormate  == Rx(<<spHCOO>>, <<spCO2, spH>>, "none")
rxMethoxy  == Rx(<<spCH3O>>, <<spCH2O, spH>>, "none")
rxHH       == Rx(<<spH, spH>>, <<spH2>>, "none")
rxOplusH2  == Rx(<<spO, spH2>>, <<spOH, spH>>, "none")
rxMalformed == Rx(<<>>, <<>>, "parse")
rxUnknown  == Rx(<<spOH>>, <<spO, spH>>, "species")

Rxns == {rxOHdiss, rxOHform, rxDisprop, rxHCO, rxFormate, rxMethoxy, rxHH,
         rxOplusH2, rxMalformed, rxUnknown}

AllSpecies == {spO, spH, spOH, spHO, spH2, spH2O, spCO, spHCO, spCO2, spHCOO,
               spCH2O, spCH3O}

\* the yaml documents: 1..MaxRxns reaction entries
Docs == UNION {[1..n -> Rxns] : n \in 1..MaxRxns}

\* number of atoms of a with symbol e
CountOf(a, e) == Cardinality({i \in DOMAIN a : a[i] = e})

\* length of the run of equal symbols of a that starts at position i
RECURSIVE RunLen(_, _)
RunLen(a, i) == IF i < Len(a) /\ a[i + 1] = a[i] THEN 1 + RunLen(a, i + 1) ELSE 1

\* str(species.symbols): ase prints the 'reduce' formula, the symbols in
\* atom order with each run of equal symbols contracted to symbol + count
RECURSIVE ReduceFrom(_, _)
ReduceFrom(a, i) ==
  IF i > Len(a) THEN <<>>
  ELSE LET n == RunLen(a, i)
       IN  <<a[i]>> \o (IF n > 1 THEN Str(n) ELSE <<>>) \o ReduceFrom(a, i + n)

SymbolsStr(species) == ReduceFrom(species.atoms, 1)

\* get_chemical_formula(): Hill order (C, H, then alphabetical), counts > 1
HillOne(a, e) ==
  LET n == CountOf(a, e)
  IN  IF n = 0 THEN <<>> ELSE <<e>> \o (IF n > 1 THEN Str(n) ELSE <<>>)

get_chemical_formula(species) ==
  HillOne(species.atoms, "C") \o HillOne(species.atoms, "H")
    \o HillOne(species.atoms, "O")

\* nx.is_isomorphic(g1, g2, node_test): a bijection of the atoms that keeps
\* the element symbols and the bonds
is_isomorphic(s1, s2) ==
  /\ Len(s1.atoms) = Len(s2.atoms)
  /\ \E pi \in Permutations(DOMAIN s1.atoms) :
       /\ \A i \in DOMAIN s1.atoms : s1.atoms[i] = s2.atoms[pi[i]]
       /\ {{pi[x] : x \in b} : b \in s1.bonds} = s2.bonds

\* '+'.join(names)
RECURSIVE JoinPlus(_)
JoinPlus(names) ==
  IF Len(names) = 0 THEN <<>>
  ELSE IF Len(names) = 1 THEN names[1]
  ELSE names[1] \o <<"+">> \o JoinPlus(Tail(names))

\* the for/else of lines 106-113: keep the first species of every
\* isomorphism class, in document order
RECURSIVE UniqueSpecies(_, _)
UniqueSpecies(todo, unique) ==
  IF Len(todo) = 0 THEN unique
  ELSE IF \E k \in DOMAIN unique : is_isomorphic(todo[1], unique[k])
       THEN UniqueSpecies(Tail(todo), unique)
       ELSE UniqueSpecies(Tail(todo), Append(unique, todo[1]))

NameList(sps) == [k \in DOMAIN sps |-> SymbolsStr(sps[k])]

\* ties go to the reactants
RpDirOf_le(r_names, p_names) ==
  IF Len(r_names) <= Len(p_names) THEN "reactants" ELSE "products"

\* lines 118-125
RpDirOf(r_names, p_names) ==
  IF Len(r_names) < Len(p_names) THEN "reactants" ELSE "products"

\* ---------------------------------------------------------- placement rule
fCHO    == <<"C", "H", "O">>
fCOH    == <<"C", "O", "H">>
fCHO2   == <<"C", "H", "O", "2">>
fC2H5O2 == <<"C", "2", "H", "5", "O", "2">>

\* lines 137-170: atom1, atom2 and bondedThrough by chemical formula
Atom1Of(f) == IF f = fC2H5O2 THEN 1 ELSE 0

Atom2Of(f) ==
  IF f = fCHO THEN 2
  ELSE IF f = fCOH THEN 2
  ELSE IF f = fCHO2 THEN 1
  ELSE IF f = fC2H5O2 THEN 5
  ELSE 1

BondedThroughOf(f) ==
  IF f = fCHO THEN <<0>>
  ELSE IF f = fCOH THEN <<0>>
  ELSE IF f = fCHO2 THEN <<2>>
  ELSE IF f = fC2H5O2 THEN <<6>>
  ELSE <<0>>

\* lines 179-197: the rigid reorientation and the bond stretch applied to
\* TS_candidate, as the list of calls made on it; ntags = len(get_tags())
RotateSetOps(ntags, f, a1, a2) ==
  IF ntags < 3 THEN
    <<<<"rotate", 90, "y">>, <<"set_distance", a1, a2, 0>>>>
  ELSE IF ntags = 3 THEN
    <<<<"rotate", 90, "z">>, <<"set_distance", a1, a2, 0>>>>
  ELSE IF f = fC2H5O2 THEN
    <<<<"rotate", 90, "z">>, <<"set_angle", a2, a1, 0>>,
      <<"set_distance", a1, a2, 1>>>>
  ELSE IF f = fCHO2 THEN
    <<<<"rotate", 90, "z">>, <<"set_distance", a1, a2, 0>>>>
  ELSE <<>>

\* number of calls named op in a list of calls
NumOps(ops, op) == Cardinality({k \in DOMAIN ops : ops[k][1] = op})

\* ------------------------------------------------------------- file system
\* The TS_estimate directory is the list of its entries, in the order the
\* file system happens to list them (the order of creation here).
File(name, kind, id, cls) == [name |-> name, kind |-> kind, id |-> id, cls |-> cls]

StaleXyz == <<"0", "0", "7", "_", "j", "u", "n", "k">> \o XyzExt
StaleDir == <<"0", "0", "0">>

EmptyDir == <<>>

\* what an earlier run may have left in TS_estimate
Leftovers ==
  {EmptyDir,
   <<File(StaleXyz, "xyz", 0 - 1, 1)>>,
   <<File(StaleDir, "dir", 0 - 1, 0)>>,
   <<File(StaleXyz, "xyz", 0 - 1, 1), File(StaleDir, "dir", 0 - 1, 0)>>}

\* os.listdir
listdir(d) == [k \in DOMAIN d |-> d[k].name]

Names(d) == {d[k].name : k \in DOMAIN d}

\* os.path.exists
Exists(d, name) == \E k \in DOMAIN d : d[k].name = name

\* the entry called name
Entry(d, name) == d[CHOOSE k \in DOMAIN d : d[k].name = name]

\* file name written by TS_placer for sequence number n (lines 221-222)
CandName(n, rxn) == zfill(Str(n), PadWidth) \o <<"_">> \o rxn \o XyzExt

\* ase.io.write: the file is created, or replaced when it exists
WriteFile(d, e) ==
  IF Exists(d, e.name)
  THEN [k \in DOMAIN d |-> IF d[k].name = e.name THEN e ELSE d[k]]
  ELSE Append(d, e)

\* the writes of one orientation, in order
RECURSIVE WriteAll(_, _)
WriteAll(d, es) ==
  IF Len(es) = 0 THEN d ELSE WriteAll(WriteFile(d, es[1]), Tail(es))

\* os.remove
RemoveFile(d, name) == SelectSeq(d, LAMBDA e : e.name # name)

\* os.rename(old, new): new is silently replaced when it exists
Relabel(d, old, new) ==
  [k \in DOMAIN d |->
     IF d[k].name = old THEN [d[k] EXCEPT !.name = new] ELSE d[k]]

RenameFile(d, old, new) ==
  IF old = new THEN d
  ELSE Relabel(SelectSeq(d, LAMBDA e : e.name # new), old, new)

\* Path(path).glob('*.xyz')
GlobXyz(d) == SelectSeq(listdir(d), LAMBDA n : EndsWith(n, XyzExt))

\* -------------------------------------------------------------------- state
VARIABLES
  rotAngle,        \* self.rotAngle
  reactions,       \* the parsed yaml document
  siteTab,         \* number of sites add_adsorbate returns, per orientation
  classTab,        \* symmetry class of each returned structure
  dir,             \* content of <facetpath>/TS_estimate
  dirExists,       \* os.path.exists(ts_estimate_path)
  pc,              \* position in prepare_ts_estimate
  run,             \* number of the current prepare_ts_estimate call
  error,           \* exception that ended the call, "none" otherwise
  rxnIdx,          \* loop position of "for rxn in reactions"
  reactants, products, speciesInd,
  symbols_list, species_unique, rxn_name, images,
  r_name_list, p_name_list, rpDir,
  TS_candidate, atom1, atom2, bondedThrough, placeOps,
  count,           \* loop counter of TS_placer
  geomlist, good_adsorbate, result_list, notunique_index,
  rmIdx,           \* loop position of "for eqsites in ..."
  rmErrors,        \* files reported by "Error while deleting file"
  listing,         \* sorted(os.listdir(ts_estimate_path)) of the renumbering
  renIdx,          \* loop position of the renumbering pass
  origIds,         \* ids of the files of listing, in listing order
  nWritten,        \* number of structures written by this TS_placer call
  firstNames,      \* file names left by the first call
  \* set_up_penalty_xtb
  species_list,    \* the tracked species
  minima,          \* <facetpath>/minima: the files of each species directory
  geomTab,         \* structure held by the candidate file with id k - 1
  scfactor_surface, scaled1, scaled2,
  avDists,         \* results of the get_av_dist calls made so far
  avScan,          \* directory and symbol scanned by each get_av_dist call
  xtbList,         \* sorted(os.listdir(ts_estimate_path)) of the job loop
  xtbIdx,          \* loop position of "for geom in ..."
  bonds,           \* bonds of the current candidate
  calc,            \* files inside the per-candidate subdirectories
  xpc,             \* position in set_up_penalty_xtb
  xerror,          \* exception that ended set_up_penalty_xtb
  \* Show
  ase_jobs,        \* self.ase_jobs: the python jobs of the Balsam database
  printed,         \* lines printed by not_finished
  running,         \* value returned by how_many_still_running
  called,          \* the Show methods called so far
  \* Results
  reactants_list, products_list,
  outFiles,        \* energies of the .out files of each species in minima_path
  slab_ener,
  tsOut,           \* the .out files of ts_path: name and energy
  r_ener_list, p_ener_list, nslabs,
  tss,             \* zip(tss_ener, tss_name)
  tsIdx,           \* loop position of "for ts_ener, ts_name in ..."
  activation_barriers,
  rpc,             \* position in get_barrier
  rerror,          \* exception raised by get_barrier
  facetpath,       \* '{facetpath}' of the big-slab job script
  namesBound,      \* py_script, py_script_dir and job_dir are bound
  balsamDb,        \* the BalsamJob table, in primary-key order
  workflow_name, dependency_workflow_name,
  pending_simulations,  \* the QuerySet and, once evaluated, its rows
  job_to_add,      \* number of the job saved, 0 before
  depIdx,          \* loop position of "for job in pending_simulations"
  dependencies,    \* the add_dependency(parent, child) calls made
  spc,             \* position in the big-slab job script
  serror           \* exception that ended the script

inVars == <<rotAngle, reactions>>
envVars == <<siteTab, classTab>>
reactVars == <<rxnIdx, reactants, products, speciesInd, symbols_list,
               species_unique, rxn_name, images, r_name_list, p_name_list,
               rpDir>>
ruleVars == <<TS_candidate, atom1, atom2, bondedThrough, placeOps>>
loopVars == <<count, nWritten>>
symmVars == <<geomlist, good_adsorbate, result_list, notunique_index>>
rmVars == <<rmIdx, rmErrors>>
renVars == <<listing, renIdx, origIds>>

xtbVars == <<species_list, minima, geomTab, scfactor_surface, scaled1, scaled2,
            avDists, avScan, xtbList, xtbIdx, bonds, calc, xpc, xerror>>
showVars == <<ase_jobs, printed, running, called>>
resVars == <<reactants_list, products_list, outFiles, slab_ener, tsOut,
            r_ener_list, p_ener_list, nslabs, tss, tsIdx,
            activation_barriers, rpc, rerror>>

\* the state of prepare_ts_estimate
tsVars == <<inVars, envVars, dir, dirExists, pc, run, error, reactVars,
            ruleVars, loopVars, nWritten, symmVars, rmVars, renVars, firstNames>>

slabVars == <<facetpath, namesBound, balsamDb, workflow_name,
             dependency_workflow_name, pending_simulations, job_to_add,
             depIdx, dependencies, spc, serror>>

\* the state of set_up_penalty_xtb, of Show, of Results and of the
\* big-slab job script
laterVars == <<xtbVars, showVars, resVars, slabVars>>

vars == <<tsVars, laterVars>>

NoSpecies == Sp(<<>>, {})

\* set_up_penalty_xtb has not been called
XtbIdle ==
  /\ species_list = <<>> /\ minima = <<>> /\ geomTab = <<>>
  /\ scfactor_surface = 10 /\ scaled1 = FALSE /\ scaled2 = FALSE
  /\ avDists = <<>> /\ avScan = <<>>
  /\ xtbList = <<>> /\ xtbIdx = 1 /\ bonds = <<>> /\ calc = {}
  /\ xpc = "idle" /\ xerror = "none"

\* no Show object
ShowIdle ==
  /\ ase_jobs = <<>> /\ printed = <<>> /\ running = 0 /\ called = {}

\* the big-slab job script has not been started
SlabIdle ==
  /\ facetpath = <<>> /\ namesBound = FALSE /\ balsamDb = <<>>
  /\ workflow_name = <<>> /\ dependency_workflow_name = <<>>
  /\ pending_simulations = [evaluated |-> FALSE, rows |-> <<>>]
  /\ job_to_add = 0 /\ depIdx = 1 /\ dependencies = <<>>
  /\ spc = "idle" /\ serror = "none"

\* no Results object
ResIdle ==
  /\ reactants_list = <<>> /\ products_list = <<>> /\ outFiles = <<>>
  /\ slab_ener = 0 /\ tsOut = <<>> /\ activation_barriers = <<>>
  /\ r_ener_list = <<>> /\ p_ener_list = <<>> /\ nslabs = 0
  /\ tss = <<>> /\ tsIdx = 1
  /\ rpc = "idle" /\ rerror = "none"

\* TS.__init__ and the files found on disk
TsInit(doc, angle, d, ex, st, ct) ==
  /\ rotAngle = angle
  /\ reactions = doc
  /\ siteTab = st
  /\ classTab = ct
  /\ dir = d
  /\ dirExists = ex
  /\ pc = "start"
  /\ run = 1
  /\ error = "none"
  /\ rxnIdx = 1
  /\ reactants = <<>> /\ products = <<>> /\ speciesInd = <<>>
  /\ symbols_list = <<>> /\ species_unique = {} /\ rxn_name = <<>>
  /\ images = <<>> /\ r_name_list = <<>> /\ p_name_list = <<>>
  /\ rpDir = "unset"
  /\ TS_candidate = NoSpecies /\ atom1 = 0 /\ atom2 = 1
  /\ bondedThrough = <<>> /\ placeOps = <<>>
  /\ count = 0 /\ nWritten = 0
  /\ geomlist = <<>> /\ good_adsorbate = <<>> /\ result_list = <<>>
  /\ notunique_index = <<>>
  /\ rmIdx = 1 /\ rmErrors = <<>>
  /\ listing = <<>> /\ renIdx = 1 /\ origIds = <<>>
  /\ firstNames = {}

\* prepare_ts_estimate alone: the later stages stay untouched
InitWith(doc, angle, d, ex, st, ct) ==
  /\ TsInit(doc, angle, d, ex, st, ct)
  /\ XtbIdle /\ ShowIdle /\ ResIdle /\ SlabIdle

\* documents run through the whole pipeline by the small specification
PipelineDocs == {<<rxOHdiss>>, <<rxMalformed>>}

Init ==
  \E doc \in PipelineDocs, angle \in RotAngles, d \in Leftovers,
     ex \in BOOLEAN :
    /\ (~ex => d = EmptyDir)
    /\ InitWith(doc, angle, d, ex, <<>>, <<>>)

\* every document, two orientations of one site each, equivalent
InitRxn ==
  \E doc \in Docs :
    InitWith(doc, 180, EmptyDir, TRUE, <<1, 1>>, <<<<1>>, <<1>>>>)

\* ------------------------------------------------------------------ actions
\* creates the directory when it is missing, keeps it otherwise
ClearedDir_keep(exists, d) == IF exists THEN d ELSE EmptyDir

\* lines 55-59: shutil.rmtree + os.makedirs when the directory exists,
\* os.makedirs alone otherwise
ClearedDir(exists, d) == IF exists THEN EmptyDir ELSE EmptyDir

\* prepare_ts_estimate, lines 54-59: TS_estimate is removed with everything
\* in it when it exists and is created empty; then prepare_react_list
\* starts with empty lists (lines 74-82)
ClearDir ==
  /\ pc = "start"
  /\ dir' = ClearedDir(dirExists, dir)
  /\ dirExists' = TRUE
  /\ rxnIdx' = 1
  /\ reactants' = <<>> /\ products' = <<>> /\ speciesInd' = <<>>
  /\ symbols_list' = <<>> /\ species_unique' = {} /\ images' = <<>>
  /\ pc' = "parse"
  /\ UNCHANGED <<laterVars, inVars, envVars, run, error, rxn_name, r_name_list,
                 p_name_list, rpDir, ruleVars, loopVars, symmVars, rmVars,
                 renVars, firstNames>>

\* prepare_react_list, lines 84-89: one iteration of "for rxn in reactions";
\* an exception of rmgcat_to_gratoms is not caught anywhere
ParseRxn ==
  /\ pc = "parse"
  /\ rxnIdx <= Len(reactions)
  /\ LET rxn == reactions[rxnIdx] IN
       IF rxn.fail = "parse"
       THEN /\ error' = "ParseError"
            /\ pc' = "failed"
            /\ UNCHANGED <<rxnIdx, reactants, products, speciesInd>>
       ELSE /\ reactants' = rxn.reactant
            /\ products' = rxn.product
            /\ speciesInd' = speciesInd \o rxn.reactant \o rxn.product
            /\ rxnIdx' = rxnIdx + 1
            /\ pc' = IF rxnIdx + 1 > Len(reactions) THEN "resolve" ELSE "parse"
            /\ UNCHANGED error
  /\ UNCHANGED <<laterVars, inVars, envVars, dir, dirExists, run, symbols_list,
                 species_unique, rxn_name, images, r_name_list, p_name_list,
                 rpDir, ruleVars, loopVars, symmVars, rmVars, renVars,
                 firstNames>>

\* prepare_react_list, lines 91-127, run once after the loop on the
\* reactants and products left by its last iteration
Resolve ==
  /\ pc = "resolve"
  /\ IF reactions[rxnIdx - 1].fail = "species"
     THEN /\ error' = "UnknownSpeciesError"
          /\ pc' = "failed"
          /\ UNCHANGED <<symbols_list, species_unique, rxn_name, images,
                         r_name_list, p_name_list, rpDir>>
     ELSE /\ symbols_list' = NameList(reactants \o products)
          /\ species_unique' =
               {SymbolsStr((reactants \o products)[k]) :
                  k \in DOMAIN (reactants \o products)}
          /\ rxn_name' = JoinPlus(NameList(reactants)) \o <<"_">>
                           \o JoinPlus(NameList(products))
          /\ images' = UniqueSpecies(speciesInd, <<>>)
          /\ r_name_list' = NameList(reactants)
          /\ p_name_list' = NameList(products)
          /\ rpDir' = RpDirOf(NameList(reactants), NameList(products))
          /\ pc' = "rule"
          /\ UNCHANGED error
  /\ UNCHANGED <<laterVars, inVars, envVars, dir, dirExists, run, rxnIdx, reactants,
                 products, speciesInd, ruleVars, loopVars, symmVars, rmVars,
                 renVars, firstNames>>

\* catkit molecule(name)[0]: a structure with the composition of the name
MoleculeOf(name) == CHOOSE s \in AllSpecies : SymbolsStr(s) = name

\* TS_placer, lines 137-197: pick TS_candidate, look up its rule, reorient
\* it and stretch the atom1-atom2 bond
PlaceRule ==
  /\ pc = "rule"
  /\ IF Len(r_name_list) > Len(p_name_list) /\ Len(images) < 3
     THEN /\ error' = "IndexError"
          /\ pc' = "failed"
          /\ UNCHANGED <<ruleVars, loopVars>>
     ELSE LET cand == IF Len(r_name_list) <= Len(p_name_list)
                      THEN MoleculeOf(r_name_list[1])
                      ELSE images[3]
              f == get_chemical_formula(cand)
          IN  /\ TS_candidate' = cand
              /\ atom1' = Atom1Of(f)
              /\ atom2' = Atom2Of(f)
              /\ bondedThrough' = BondedThroughOf(f)
              /\ IF Atom2Of(f) >= Len(cand.atoms)
                 THEN \* get_distance(atom1, atom2) on a missing atom
                      /\ error' = "IndexError"
                      /\ pc' = "failed"
                      /\ UNCHANGED <<placeOps, loopVars>>
                 ELSE /\ placeOps' = RotateSetOps(Len(cand.atoms), f,
                                                  Atom1Of(f), Atom2Of(f))
                      /\ count' = 0
                      /\ nWritten' = 0
                      /\ pc' = "place"
                      /\ UNCHANGED error
  /\ UNCHANGED <<laterVars, inVars, envVars, dir, dirExists, run, reactVars, symmVars,
                 rmVars, renVars, firstNames>>

\* lines 210 and 213: count <= (360 / rotAngle) - 1
MoreRotations(c, angle) == (c + 1) * angle <= 360

\* lines 221-222: sequence number of structure i of orientation c
SeqNumber(i, nstructs, c) == i + nstructs * c

\* what add_adsorbate may return for the current orientation: the recorded
\* answer when this orientation was asked before, any answer otherwise
SiteAnswers ==
  IF count < Len(siteTab) THEN {siteTab[count + 1]} ELSE 0..MaxSites

\* symmetry classes already met by this builder
ClassesMet == UNION {{classTab[k][j] : j \in DOMAIN classTab[k]} :
                       k \in DOMAIN classTab}

\* the classes of the n structures of the current orientation; a class is
\* called by the next free number when it is first met
ClassAnswers(n) ==
  IF count < Len(classTab) THEN {classTab[count + 1]}
  ELSE {cls \in [1..n -> 1..MaxClass] :
          \A j \in 1..n :
            cls[j] <= 1 + Cardinality(ClassesMet
                                       \cup {cls[i] : i \in 1..(j - 1)})}

\* TS_placer, lines 213-225: one iteration of the while loop
PlaceOrientation ==
  /\ pc = "place"
  /\ MoreRotations(count, rotAngle)
  /\ \E n \in SiteAnswers : \E cls \in ClassAnswers(n) :
       /\ dir' = WriteAll(dir,
                   [j \in 1..n |->
                      File(CandName(SeqNumber(j - 1, n, count), rxn_name),
                           "xyz", nWritten + j - 1, cls[j])])
       /\ nWritten' = nWritten + n
       /\ siteTab' = IF count < Len(siteTab) THEN siteTab
                     ELSE Append(siteTab, n)
       /\ classTab' = IF count < Len(classTab) THEN classTab
                      ELSE Append(classTab, cls)
  /\ count' = count + 1
  /\ UNCHANGED <<laterVars, inVars, dirExists, pc, run, error, reactVars, ruleVars,
                 symmVars, rmVars, renVars, firstNames>>

\* TS_placer returns; checkSymmBeforeXTB, lines 478-480
CheckSymmStart ==
  /\ pc = "place"
  /\ ~MoreRotations(count, rotAngle)
  /\ geomlist' = Sorted(GlobXyz(dir))
  /\ good_adsorbate' = <<>>
  /\ result_list' = <<>>
  /\ pc' = "symm"
  /\ UNCHANGED <<laterVars, inVars, envVars, dir, dirExists, run, error, reactVars,
                 ruleVars, loopVars, notunique_index, rmVars, renVars,
                 firstNames>>

\* compares with the last unique structure only
Compare_lastOnly(adsorbed, good) ==
  Len(good) > 0 /\ good[Len(good)] = adsorbed

\* comparator.compare(adsorbed, good_adsorbate): adsorbed is symmetry
\* equivalent to some structure of the list
Compare(adsorbed, good) == \E k \in DOMAIN good : good[k] = adsorbed

\* checkSymmBeforeXTB, lines 481-488: one iteration of "for geom in geomlist"
CheckSymmStep ==
  /\ pc = "symm"
  /\ Len(result_list) < Len(geomlist)
  /\ \E adsorbed \in {Entry(dir, geomlist[Len(result_list) + 1]).cls} :
     \E result \in {Compare(adsorbed, good_adsorbate)} :
       /\ result_list' = Append(result_list, result)
       /\ good_adsorbate' = IF result THEN good_adsorbate
                            ELSE Append(good_adsorbate, adsorbed)
  /\ UNCHANGED <<laterVars, inVars, envVars, dir, dirExists, pc, run, error, reactVars,
                 ruleVars, loopVars, geomlist, notunique_index, rmVars, renVars,
                 firstNames>>

\* checkSymmBeforeXTB, lines 489-494: the zero-padded positions of the
\* structures found equivalent
PadAll(nums) == [j \in DOMAIN nums |-> zfill(Str(nums[j]), PadWidth)]

NotUniqueIndex(results) ==
  PadAll(SelectSeq([k \in DOMAIN results |-> k - 1],
                   LAMBDA num : results[num + 1]))

CheckSymmReturn ==
  /\ pc = "symm"
  /\ Len(result_list) = Len(geomlist)
  /\ notunique_index' = NotUniqueIndex(result_list)
  /\ rmIdx' = 1
  /\ rmErrors' = <<>>
  /\ pc' = "remove"
  /\ UNCHANGED <<laterVars, inVars, envVars, dir, dirExists, run, error, reactVars,
                 ruleVars, loopVars, geomlist, good_adsorbate, result_list,
                 renVars, firstNames>>

\* lines 233-234
FileToRemove(eqsites, rxn) == eqsites \o <<"_">> \o rxn \o XyzExt

\* filtered_out_equiv_ts_estimate, lines 231-237: one iteration
RemoveStep ==
  /\ pc = "remove"
  /\ rmIdx <= Len(notunique_index)
  /\ LET fileToRemove == FileToRemove(notunique_index[rmIdx], rxn_name) IN
       IF Exists(dir, fileToRemove)
       THEN /\ dir' = RemoveFile(dir, fileToRemove)
            /\ UNCHANGED rmErrors
       ELSE /\ rmErrors' = Append(rmErrors, fileToRemove)
            /\ UNCHANGED dir
  /\ rmIdx' = rmIdx + 1
  /\ UNCHANGED <<laterVars, inVars, envVars, dirExists, pc, run, error, reactVars,
                 ruleVars, loopVars, symmVars, renVars, firstNames>>

\* line 239: the listing is taken once, before the first rename
RenameStart ==
  /\ pc = "remove"
  /\ rmIdx > Len(notunique_index)
  /\ listing' = Sorted(listdir(dir))
  /\ origIds' = [p \in DOMAIN listing' |-> Entry(dir, listing'[p]).id]
  /\ renIdx' = 1
  /\ pc' = "rename"
  /\ UNCHANGED <<laterVars, inVars, envVars, dir, dirExists, run, error, reactVars,
                 ruleVars, loopVars, symmVars, rmVars, firstNames>>

\* lines 240-242
NewName(prefix, noneqsites) ==
  zfill(Str(prefix), PadWidth) \o Drop(noneqsites, PadWidth)

\* lines 239-243: one iteration of the renumbering pass
RenameStep ==
  /\ pc = "rename"
  /\ renIdx <= Len(listing)
  /\ IF Exists(dir, listing[renIdx])
     THEN /\ dir' = RenameFile(dir, listing[renIdx],
                               NewName(renIdx - 1, listing[renIdx]))
          /\ renIdx' = renIdx + 1
          /\ UNCHANGED <<pc, error>>
     ELSE /\ error' = "FileNotFoundError"
          /\ pc' = "failed"
          /\ UNCHANGED <<dir, renIdx>>
  /\ UNCHANGED <<laterVars, inVars, envVars, dirExists, run, reactVars, ruleVars, loopVars,
                 symmVars, rmVars, listing, origIds, firstNames>>

\* prepare_ts_estimate returns
Finish ==
  /\ pc = "rename"
  /\ renIdx > Len(listing)
  /\ pc' = "done"
  /\ firstNames' = IF run = 1 THEN Names(dir) ELSE firstNames
  /\ UNCHANGED <<laterVars, inVars, envVars, dir, dirExists, run, error, reactVars,
                 ruleVars, loopVars, symmVars, rmVars, renVars>>

\* prepare_ts_estimate is called a second time with the same inputs
Rerun ==
  /\ pc = "done"
  /\ run = 1
  /\ run' = 2
  /\ pc' = "start"
  /\ UNCHANGED <<laterVars, inVars, envVars, dir, dirExists, error, reactVars, ruleVars,
                 loopVars, symmVars, rmVars, renVars, firstNames>>

Next ==
  \/ ClearDir
  \/ ParseRxn
  \/ Resolve
  \/ PlaceRule
  \/ PlaceOrientation
  \/ CheckSymmStart
  \/ CheckSymmStep
  \/ CheckSymmReturn
  \/ RemoveStep
  \/ RenameStart
  \/ RenameStep
  \/ Finish
  \/ Rerun

Spec == Init /\ [][Next]_vars

SpecRxn == InitRxn /\ [][Next]_vars

\* ------------------------------------------------- the fine-rotation runs
\* rotAngle = 1 gives 360 orientations, so that with three sites the
\* sequence numbers of the last orientations pass 999.  The builder finds
\* sites only for the last three orientations (profile "late") or only for
\* the first and the last one (profile "ends"); either all structures are
\* inequivalent (symmetry "distinct") or the structures on the same site
\* are equivalent (symmetry "site").  Profile "head" finds sites for the
\* first 34 orientations and for orientations 334 and 337, which gives the
\* sequence numbers 0..101, 1002..1004 and 1011..1013.
FineSites(profile) ==
  [k \in 1..360 |->
     IF profile = "late" THEN (IF k >= 358 THEN 3 ELSE 0)
     ELSE IF profile = "head"
          THEN (IF k <= 34 \/ k = 335 \/ k = 338 THEN 3 ELSE 0)
     ELSE (IF k = 1 \/ k = 360 THEN 3 ELSE 0)]

FineClasses(profile, symmetry) ==
  [k \in 1..360 |->
     [i \in 1..FineSites(profile)[k] |->
        IF symmetry = "distinct" THEN 3 * (k - 1) + i ELSE i]]

InitFine ==
  \E profile \in {"late", "ends"}, symmetry \in {"distinct", "site"} :
    InitWith(<<rxOHdiss>>, 1, EmptyDir, TRUE, FineSites(profile),
             FineClasses(profile, symmetry))

SpecFine == InitFine /\ [][Next]_vars

\* more than a hundred candidates, some with four-digit sequence numbers
InitDense ==
  \E symmetry \in {"distinct", "site"} :
    InitWith(<<rxOHdiss>>, 1, EmptyDir, TRUE, FineSites("head"),
             FineClasses("head", symmetry))

SpecDense == InitDense /\ [][Next]_vars

\* -------------------------------------------------------- geometry files
\* bounds of the job-emission runs
MaxCand == 2
MaxRefs == 2

\* a structure is the list of its atoms in file order: element symbol and
\* position along one axis
At(sym, x) == [sym |-> sym, x |-> x]

Cu == <<"C", "u">>
CuSp == <<"C", "u", " ">>

\* comment line of the extended xyz format written by ase.io.write
Comment ==
  <<"P", "r", "o", "p", "e", "r", "t", "i", "e", "s", "=", "s", "p", "e",
    "c", "i", "e", "s", ":", "S", ":", "1", ":", "p", "o", "s", ":", "R",
    ":", "3", " ", "p", "b", "c", "=", "T", " ", "T", " ", "F">>

AtomLine(a) == a.sym \o <<" ">> \o Str(a.x)

\* f.readlines() of an xyz file: atom count, comment, one line per atom
XyzLines(conf) ==
  <<Str(Len(conf)), Comment>> \o [k \in DOMAIN conf |-> AtomLine(conf[k])]

\* Python "pat in line"
Contains(line, pat) ==
  \E i \in 1..(Len(line) - Len(pat) + 1) :
    SubSeq(line, i, i + Len(pat) - 1) = pat

\* num - 2 for every line of the file, enumerate starting at 0
LineIndices(lines) == [k \in DOMAIN lines |-> k - 3]

\* lines 362-363, 440-441: the lines that hold 'Cu '
SurfaceScan(lines) ==
  SelectSeq(LineIndices(lines), LAMBDA i : Contains(lines[i + 3], CuSp))

\* lines 364-367, 442-444: elif <symbol> in line and not 'Cu' in line
AdsorbateScan(lines, sym) ==
  SelectSeq(LineIndices(lines),
            LAMBDA i : /\ ~Contains(lines[i + 3], CuSp)
                       /\ Contains(lines[i + 3], sym)
                       /\ ~Contains(lines[i + 3], Cu))

\* lines 421-424: <symbol> in line and not 'Cu' in line
AdatomScan(lines, sym) ==
  SelectSeq(LineIndices(lines),
            LAMBDA i : /\ Contains(lines[i + 3], sym)
                       /\ ~Contains(lines[i + 3], Cu))

\* atoms[i] of Python: negative indices count from the end
ValidIndex(conf, i) == i >= 0 - Len(conf) /\ i < Len(conf)

PosOf(conf, i) == conf[(IF i < 0 THEN i + Len(conf) ELSE i) + 1].x

Abs(n) == IF n < 0 THEN 0 - n ELSE n

\* conf.get_distances(a, indices)
get_distances(conf, a, indices) ==
  [k \in DOMAIN indices |-> Abs(PosOf(conf, indices[k]) - PosOf(conf, a))]

\* min(values)
Min(values) ==
  CHOOSE m \in Range(values) : \A k \in DOMAIN values : m <= values[k]

\* the calls adsorbate_atom[0] and get_distances(.., surface_atom) and min
\* raise on these inputs
DistError(conf, adsorbate, surface) ==
  IF Len(adsorbate) = 0 THEN "IndexError"
  ELSE IF ~ValidIndex(conf, adsorbate[1]) THEN "IndexError"
  ELSE IF \E k \in DOMAIN surface : ~ValidIndex(conf, surface[k])
       THEN "IndexError"
  ELSE IF Len(surface) = 0 THEN "ValueError"
  ELSE "none"

\* the last of the matching lines
UsedMatch_last(matches) == matches[Len(matches)]

\* adsorbate_atom[0], lines 426 and 448
UsedMatch(matches) == matches[1]

\* lines 417-418, 433-434: ads_atom[:1] when longer than one character
AdatomSymbol(ads_atom) ==
  IF Len(ads_atom) > 1 THEN Take(ads_atom, 1) ELSE ads_atom

\* get_index_adatom(ads_atom, geom), lines 414-426
get_index_adatom(ads_atom, conf) ==
  LET matches == AdatomScan(XyzLines(conf), AdatomSymbol(ads_atom))
  IN  IF Len(matches) = 0 THEN [err |-> "IndexError", index |-> 0]
      ELSE [err |-> "none", index |-> UsedMatch(matches)]

\* np.where(all == min)[0][0]: first position holding the minimum
FirstMin(values) ==
  CHOOSE p \in DOMAIN values :
    /\ values[p] = Min(values)
    /\ \A q \in 1..(p - 1) : values[q] # Min(values)

\* get_index_surface_atom(ads_atom, geom), lines 429-455
SurfaceAtomOf(conf, adsorbate, surface) ==
  IF DistError(conf, adsorbate, surface) # "none"
  THEN [err |-> DistError(conf, adsorbate, surface), index |-> 0]
  ELSE [err |-> "none",
        index |-> surface[FirstMin(get_distances(conf, UsedMatch(adsorbate),
                                                 surface))]]

get_index_surface_atom(ads_atom, conf) ==
  SurfaceAtomOf(conf,
                AdsorbateScan(XyzLines(conf), AdatomSymbol(ads_atom)),
                SurfaceScan(XyzLines(conf)))

\* ------------------------------------------------------------ get_av_dist
sCH3O == <<"C", "H", "3", "O">>
sCH2O == <<"C", "H", "2", "O">>

TrajExt == <<".", "t", "r", "a", "j">>
FinalXyzExt == <<"_", "f", "i", "n", "a", "l", ".", "x", "y", "z">>

\* a file of a species directory
RefFile(name, conf) == [name |-> name, conf |-> conf]

\* truncates every symbol longer than one character
AvSymbol_truncOnly(species) ==
  IF Len(species) > 1 THEN Take(species, 1) ELSE species

\* lines 344-347: the symbol looked for in the lines of the reference files
AvSymbol(species) ==
  IF species \in {sCH3O, sCH2O} THEN <<"O">>
  ELSE IF Len(species) > 1 THEN Take(species, 1)
  ELSE species

\* gen_xyz_from_traj, lines 329-334: every .traj of the species directory
\* is written out as <name>_final.xyz
RECURSIVE GenXyz(_, _)
GenXyz(files, todo) ==
  IF Len(todo) = 0 THEN files
  ELSE IF EndsWith(todo[1], TrajExt)
       THEN GenXyz(WriteFile(files,
                     RefFile(Take(todo[1], Len(todo[1]) - 5) \o FinalXyzExt,
                             Entry(files, todo[1]).conf)),
                   Tail(todo))
       ELSE GenXyz(files, Tail(todo))

gen_xyz_from_traj(files) == GenXyz(files, Sorted(listdir(files)))

\* lines 349-350: the reference structures, in the order they are read
FinalConfs(files) ==
  LET names == SelectSeq(Sorted(listdir(files)),
                         LAMBDA n : EndsWith(n, FinalXyzExt))
  IN  [k \in DOMAIN names |-> Entry(files, names[k]).conf]

\* lines 349-371: the loop over the reference files; the two index lists
\* are created once, before the loop (lines 339-340)
RECURSIVE AvLoop(_, _, _, _, _)
AvLoop(confs, sym, surface_atoms_indices, adsorbate_atoms_indices, all_conf_dist) ==
  IF Len(confs) = 0 THEN [err |-> "none", dists |-> all_conf_dist]
  ELSE LET surface == surface_atoms_indices
                        \o SurfaceScan(XyzLines(confs[1]))
           adsorbate == adsorbate_atoms_indices
                          \o AdsorbateScan(XyzLines(confs[1]), sym)
       IN  IF DistError(confs[1], adsorbate, surface) # "none"
           THEN [err |-> DistError(confs[1], adsorbate, surface),
                 dists |-> all_conf_dist]
           ELSE AvLoop(Tail(confs), sym, surface, adsorbate,
                       Append(all_conf_dist,
                              Min(get_distances(confs[1],
                                                UsedMatch(adsorbate),
                                                surface))))

RECURSIVE SumOf(_)
SumOf(values) ==
  IF Len(values) = 0 THEN 0 ELSE values[1] + SumOf(Tail(values))

\* a distance as a fraction num / den
Frac(num, den) == [num |-> num, den |-> den]

\* an empty list of reference distances gives the distance 0
MeanDist_zero(all_conf_dist, scf, scaled) ==
  IF Len(all_conf_dist) = 0 THEN [err |-> "none", val |-> Frac(0, 1)]
  ELSE IF scaled
  THEN [err |-> "none",
        val |-> Frac(SumOf(all_conf_dist) * scf, Len(all_conf_dist) * 10)]
  ELSE [err |-> "none",
        val |-> Frac(SumOf(all_conf_dist), Len(all_conf_dist))]

\* lines 372-376: meanDist is assigned inside the loop only, so that
\* "return meanDist" raises when no reference file was read;
\* scfactor_surface is held in tenths
MeanDist(all_conf_dist, scf, scaled) ==
  IF Len(all_conf_dist) = 0
  THEN [err |-> "UnboundLocalError", val |-> Frac(0, 1)]
  ELSE IF scaled
  THEN [err |-> "none",
        val |-> Frac(SumOf(all_conf_dist) * scf, Len(all_conf_dist) * 10)]
  ELSE [err |-> "none",
        val |-> Frac(SumOf(all_conf_dist), Len(all_conf_dist))]

\* a species directory of minima: missing, or the list of its files
SpeciesDir(exists, files) == [exists |-> exists, files |-> files]

\* get_av_dist(avDistPath, species, scfactor_surface, scaled), lines
\* 337-376: the result, the directory and the symbol scanned (none when
\* os.listdir of gen_xyz_from_traj raised), and the species directory as
\* the call leaves it
get_av_dist(d, species, scf, scaled) ==
  IF ~d.exists
  THEN [err |-> "FileNotFoundError", val |-> Frac(0, 1), dir |-> d,
        scan |-> <<>>]
  ELSE LET loop == AvLoop(FinalConfs(gen_xyz_from_traj(d.files)),
                          AvSymbol(species), <<>>, <<>>, <<>>)
           mean == MeanDist(loop.dists, scf, scaled)
       IN  [err |-> IF loop.err # "none" THEN loop.err ELSE mean.err,
            val |-> mean.val,
            dir |-> SpeciesDir(TRUE, gen_xyz_from_traj(d.files)),
            scan |-> <<[path |-> species, sym |-> AvSymbol(species)]>>]

\* ----------------------------------------------------- set_up_penalty_xtb
sO == <<"O">>
sH == <<"H">>
sCO == <<"C", "O">>

\* the species_list arguments tried
SpeciesLists == {<<sO, sH>>, <<sCH3O, sH>>, <<sCH2O, sH>>, <<sCO, sO>>}

\* the atoms of a tracked species, in the order catkit builds them
AdsAtoms(species) == MoleculeOf(species).atoms

\* the adsorbate atoms laid out from position x on
Adsorbed(atoms, x) == [j \in DOMAIN atoms |-> At(<<atoms[j]>>, x + j - 1)]

\* relaxed reference structures of a species: on a two-atom slab at two
\* different heights, and a file that lists the adsorbate before a
\* three-atom slab
RefConfs(species) ==
  {<<At(Cu, 0), At(Cu, 9)>> \o Adsorbed(AdsAtoms(species), 1),
   <<At(Cu, 0), At(Cu, 9)>> \o Adsorbed(AdsAtoms(species), 2),
   Adsorbed(AdsAtoms(species), 3) \o <<At(Cu, 0), At(Cu, 1), At(Cu, 9)>>}

TrajName(k) == zfill(Str(k), 2) \o TrajExt

\* the species directories that may be found: missing, empty, or up to
\* MaxRefs trajectories
SpeciesDirs(species) ==
  {SpeciesDir(FALSE, <<>>)}
    \cup {SpeciesDir(TRUE, [k \in DOMAIN confs |->
                               RefFile(TrajName(k - 1), confs[k])]) :
            confs \in UNION {[1..n -> RefConfs(species)] : n \in 0..MaxRefs}}

\* the directory of the second tracked species: missing, empty, or one
\* relaxed structure
SecondDirs(species) ==
  {SpeciesDir(FALSE, <<>>), SpeciesDir(TRUE, <<>>),
   SpeciesDir(TRUE, <<RefFile(TrajName(0),
                              <<At(Cu, 0), At(Cu, 9)>>
                                \o Adsorbed(AdsAtoms(species), 1))>>)}

\* candidate structures: O and H next to different surface atoms, O and H
\* midway between the two surface atoms, and methoxy with a hydrogen atom
CandConfs ==
  {<<At(Cu, 0), At(Cu, 4), At(sO, 1), At(sH, 3)>>,
   <<At(Cu, 0), At(Cu, 4), At(sO, 2), At(sH, 2)>>,
   <<At(Cu, 0), At(Cu, 4), At(<<"C">>, 3), At(sH, 2), At(sH, 3), At(sH, 3),
     At(sO, 1), At(sH, 2)>>}

XtbRxn == <<"O", "H", "_", "O", "+", "H">>

InitialPng == <<"i", "n", "i", "t", "i", "a", "l", "_", "p", "n", "g">>

\* TS_estimate as prepare_ts_estimate leaves it: candidates 000.. and,
\* from an earlier version of the workflow, an initial_png directory
CandDir(n, png) ==
  [j \in 1..n |-> File(CandName(j - 1, XtbRxn), "xyz", j - 1, 0)]
    \o (IF png THEN <<File(InitialPng, "dir", 0 - 1, 0)>> ELSE <<>>)

InitXtb ==
  /\ \E n \in 0..MaxCand, png \in BOOLEAN :
       TsInit(<<rxOHdiss>>, 180, CandDir(n, png), TRUE, <<>>, <<>>)
  /\ ShowIdle /\ ResIdle /\ SlabIdle
  /\ geomTab \in [1..Len(GlobXyz(dir)) -> CandConfs]
  /\ species_list \in SpeciesLists
  /\ \E d1 \in SpeciesDirs(species_list[1]),
        d2 \in SecondDirs(species_list[2]) :
       minima = (species_list[1] :> d1) @@ (species_list[2] :> d2)
  /\ scfactor_surface = 14
  /\ \E sc \in {<<FALSE, FALSE>>, <<TRUE, FALSE>>, <<FALSE, TRUE>>} :
       scaled1 = sc[1] /\ scaled2 = sc[2]
  /\ avDists = <<>> /\ avScan = <<>>
  /\ xtbList = <<>> /\ xtbIdx = 1 /\ bonds = <<>> /\ calc = {}
  /\ xpc = "start" /\ xerror = "none"

\* what set_up_penalty_xtb leaves alone of the state of prepare_ts_estimate
tsKeep == <<inVars, envVars, dirExists, pc, run, error, reactVars, ruleVars,
            loopVars, symmVars, rmVars, renVars, firstNames>>

xtbIn == <<species_list, geomTab, scfactor_surface, scaled1, scaled2>>

\* set_up_penalty_xtb, lines 248-251 and 270: the two average distances,
\* then the listing of the candidates
XtbStart ==
  /\ xpc = "start"
  /\ \E d1 \in {get_av_dist(minima[species_list[1]], species_list[1],
                             scfactor_surface, scaled1)} :
     \E m1 \in {[minima EXCEPT ![species_list[1]] = d1.dir]} :
       IF d1.err # "none"
       THEN /\ minima' = m1
            /\ avScan' = d1.scan
            /\ xerror' = d1.err
            /\ xpc' = "failed"
            /\ UNCHANGED <<avDists, xtbList>>
       ELSE \E d2 \in {get_av_dist(m1[species_list[2]], species_list[2],
                                   scfactor_surface, scaled2)} :
              /\ minima' = [m1 EXCEPT ![species_list[2]] = d2.dir]
              /\ avScan' = d1.scan \o d2.scan
              /\ IF d2.err # "none"
                 THEN /\ avDists' = <<d1.val>>
                      /\ xerror' = d2.err
                      /\ xpc' = "failed"
                      /\ UNCHANGED xtbList
                 ELSE /\ avDists' = <<d1.val, d2.val>>
                      /\ xtbList' = Sorted(listdir(dir))
                      /\ xpc' = "geom"
                      /\ UNCHANGED xerror
  /\ UNCHANGED <<tsKeep, dir, xtbIn, xtbIdx, bonds, calc, showVars, resVars, slabVars>>

\* the candidate of the current iteration and its structure
Geom == xtbList[xtbIdx]

GeomConf == geomTab[Entry(dir, Geom).id + 1]

\* lines 275-279: both indices of every tracked species, up to the first
\* call that raises
RECURSIVE BondsOf(_, _, _)
BondsOf(species, conf, done) ==
  IF Len(species) = 0 THEN [err |-> "none", bonds |-> done]
  ELSE LET sp_index == get_index_adatom(species[1], conf)
           Cu_index == get_index_surface_atom(species[1], conf)
       IN  IF sp_index.err # "none"
           THEN [err |-> sp_index.err, bonds |-> done]
           ELSE IF Cu_index.err # "none"
           THEN [err |-> Cu_index.err, bonds |-> done]
           ELSE BondsOf(Tail(species), conf,
                        Append(done, <<sp_index.index, Cu_index.index>>))

\* lines 270-279: the next entry of the listing; an entry that is not an
\* .xyz file is passed over
XtbBonds ==
  /\ xpc = "geom"
  /\ xtbIdx <= Len(xtbList)
  /\ IF ~EndsWith(Geom, XyzExt)
     THEN /\ xtbIdx' = xtbIdx + 1
          /\ UNCHANGED <<bonds, xpc, xerror>>
     ELSE \E b \in {BondsOf(species_list, GeomConf, <<>>)} :
            /\ bonds' = b.bonds
            /\ xerror' = b.err
            /\ xpc' = IF b.err # "none" THEN "failed" ELSE "makedirs"
            /\ UNCHANGED xtbIdx
  /\ UNCHANGED <<tsKeep, dir, xtbIn, minima, avDists, avScan, xtbList, calc,
                 showVars, resVars, slabVars>>

\* lines 288-289: prefix[0]
Prefix(geom) == SplitHead(geom)

\* geom[:-4]
Stem(geom) == Take(geom, Len(geom) - 4)

\* lines 289-290: os.makedirs(calcDir, exist_ok=True)
XtbMakedirs ==
  /\ xpc = "makedirs"
  /\ IF ~Exists(dir, Prefix(Geom))
     THEN /\ dir' = Append(dir, File(Prefix(Geom), "dir", 0 - 1, 0))
          /\ xpc' = "png"
          /\ UNCHANGED xerror
     ELSE IF Entry(dir, Prefix(Geom)).kind = "dir"
     THEN /\ xpc' = "png"
          /\ UNCHANGED <<dir, xerror>>
     ELSE /\ xerror' = "FileExistsError"
          /\ xpc' = "failed"
          /\ UNCHANGED dir
  /\ UNCHANGED <<tsKeep, xtbIn, minima, avDists, avScan, xtbList, xtbIdx,
                 bonds, calc, showVars, resVars, slabVars>>

\* a file inside the subdirectory d of TS_estimate
CalcFile(d, name, kind, b, av, id) ==
  [dir |-> d, name |-> name, kind |-> kind, bonds |-> b, avDists |-> av,
   id |-> id]

\* write or replace a file of a subdirectory
WriteCalc(c, f) ==
  {g \in c : ~(g.dir = f.dir /\ g.name = f.name)} \cup {f}

PngExt == <<"_", "i", "n", "i", "t", "i", "a", "l", ".", "p", "n", "g">>
PyExt == <<".", "p", "y">>

\* lines 300-301: the preview image
XtbPreview ==
  /\ xpc = "png"
  /\ calc' = WriteCalc(calc, CalcFile(Prefix(Geom), Stem(Geom) \o PngExt,
                                      "png", <<>>, <<>>, 0 - 1))
  /\ xpc' = "job"
  /\ UNCHANGED <<tsKeep, dir, xtbIn, minima, avDists, avScan, xtbList, xtbIdx,
                 bonds, xerror, showVars, resVars, slabVars>>

\* lines 302-308: the job file, the template filled in
XtbJob ==
  /\ xpc = "job"
  /\ calc' = WriteCalc(calc, CalcFile(Prefix(Geom), Stem(Geom) \o PyExt,
                                      "py", bonds, avDists,
                                      Entry(dir, Geom).id))
  /\ xpc' = "move"
  /\ UNCHANGED <<tsKeep, dir, xtbIn, minima, avDists, avScan, xtbList, xtbIdx,
                 bonds, xerror, showVars, resVars, slabVars>>

\* the geometry file stays where it was
Moved_copy(d, name) == d

\* shutil.move: the file leaves the directory it was in
Moved(d, name) == RemoveFile(d, name)

\* line 309: shutil.move(geomPath, calcDir)
XtbMove ==
  /\ xpc = "move"
  /\ IF \E g \in calc : g.dir = Prefix(Geom) /\ g.name = Geom
     THEN /\ xerror' = "shutil.Error"
          /\ xpc' = "failed"
          /\ UNCHANGED <<dir, calc, xtbIdx>>
     ELSE /\ calc' = WriteCalc(calc, CalcFile(Prefix(Geom), Geom, "xyz",
                                              <<>>, <<>>,
                                              Entry(dir, Geom).id))
          /\ dir' = Moved(dir, Geom)
          /\ xtbIdx' = xtbIdx + 1
          /\ xpc' = "geom"
          /\ UNCHANGED xerror
  /\ UNCHANGED <<tsKeep, xtbIn, minima, avDists, avScan, xtbList, bonds,
                 showVars, resVars, slabVars>>

\* lines 312-316: the loop is over; initial_png is removed when it exists
XtbReturn ==
  /\ xpc = "geom"
  /\ xtbIdx > Len(xtbList)
  /\ dir' = RemoveFile(dir, InitialPng)
  /\ calc' = {g \in calc : g.dir # InitialPng}
  /\ xpc' = "done"
  /\ UNCHANGED <<tsKeep, xtbIn, minima, avDists, avScan, xtbList, xtbIdx,
                 bonds, xerror, showVars, resVars, slabVars>>

NextXtb ==
  \/ XtbStart
  \/ XtbBonds
  \/ XtbMakedirs
  \/ XtbPreview
  \/ XtbJob
  \/ XtbMove
  \/ XtbReturn

SpecXtb == InitXtb /\ [][NextXtb]_vars

\* -------------------------------------------------------------------- Show
MaxJobs == 3

JobStates == {"JOB_FINISHED", "RUNNING", "FAILED"}

\* a BalsamJob of the database; the k-th job is called by its number
BalsamJob(state, workflow, name) ==
  [state |-> state, workflow |-> workflow, name |-> name]

\* BalsamJob.objects.filter(application__contains='python')
JobLists ==
  UNION {[1..n -> JobStates] : n \in 0..MaxJobs}

\* lines 48-49 and 52: the line printed for a dictionary item, as the
\* fields the two format strings put into it
Line(key, workflow, name) == <<key, workflow, name>>

\* d[key] = val: a new key goes to the end, a known key keeps its place
\* and gets the new value
DictSet(d, key, val) ==
  IF \E k \in DOMAIN d : d[k][1] = key
  THEN [k \in DOMAIN d |-> IF d[k][1] = key THEN <<key, val>> ELSE d[k]]
  ELSE Append(d, <<key, val>>)

\* lines 44-49: the dictionary not_finished, keyed by job.state
RECURSIVE NotFinishedDict(_, _)
NotFinishedDict(jobs, d) ==
  IF Len(jobs) = 0 THEN d
  ELSE IF jobs[1].state # "JOB_FINISHED"
       THEN NotFinishedDict(Tail(jobs),
                            DictSet(d, jobs[1].state,
                                    <<jobs[1].workflow, jobs[1].name>>))
       ELSE NotFinishedDict(Tail(jobs), d)

\* lines 51-52: one line per dictionary item
PrintItems(d) == [k \in DOMAIN d |-> Line(d[k][1], d[k][2][1], d[k][2][2])]

InitShow ==
  /\ TsInit(<<rxOHdiss>>, 180, EmptyDir, TRUE, <<>>, <<>>)
  /\ XtbIdle /\ ResIdle /\ SlabIdle
  /\ \E states \in JobLists :
       ase_jobs = [k \in DOMAIN states |-> BalsamJob(states[k], "wf02", k)]
  /\ printed = <<>> /\ running = 0 /\ called = {}

\* Show.not_finished, lines 39-52
NotFinished ==
  /\ "not_finished" \notin called
  /\ printed' = PrintItems(NotFinishedDict(ase_jobs, <<>>))
  /\ called' = called \cup {"not_finished"}
  /\ UNCHANGED <<tsVars, xtbVars, resVars, slabVars, ase_jobs, running>>

\* Show.how_many_still_running, lines 12-25
HowManyStillRunning ==
  /\ "how_many_still_running" \notin called
  /\ running' = Len(SelectSeq(ase_jobs,
                              LAMBDA job : job.state # "JOB_FINISHED"))
  /\ called' = called \cup {"how_many_still_running"}
  /\ UNCHANGED <<tsVars, xtbVars, resVars, slabVars, ase_jobs, printed>>

NextShow ==
  \/ NotFinished
  \/ HowManyStillRunning

SpecShow == InitShow /\ [][NextShow]_vars

\* ----------------------------------------------------------------- Results
MaxTs == 2

\* reactants_list and products_list of the Results objects tried
ResReactions ==
  {<<<<"OH">>, <<"O", "H">>>>,
   <<<<"O", "H">>, <<"OH">>>>,
   <<<<"OH", "H">>, <<"O", "H2">>>>}

\* energies (eV) read from the last line of the .out files of a species,
\* one file or two conformers
OutEnergies(species, conformers) ==
  LET e == CASE species = "O" -> 0 - 4 [] species = "H" -> 0 - 3
             [] species = "OH" -> 0 - 8 [] OTHER -> 0 - 7
  IN  IF conformers = 1 THEN <<e>> ELSE <<e + 1, e>>

TsOutName(k) == zfill(Str(k), 2) \o <<"_", "t", "s", ".", "o", "u", "t">>

TsEnergies == {0 - 6, 0 - 5}

\* the files of ts_path: up to MaxTs .out files
TsOutLists ==
  UNION {[1..n -> TsEnergies] : n \in 0..MaxTs}

InitRes ==
  /\ TsInit(<<rxOHdiss>>, 180, EmptyDir, TRUE, <<>>, <<>>)
  /\ XtbIdle /\ ShowIdle /\ SlabIdle
  /\ \E rx \in ResReactions, conformers \in 1..2 :
       /\ reactants_list = rx[1]
       /\ products_list = rx[2]
       /\ outFiles = [s \in Range(rx[1]) \cup Range(rx[2]) |->
                        OutEnergies(s, conformers)]
  /\ slab_ener \in {0 - 2, 0 - 1}
  /\ \E eners \in TsOutLists :
       tsOut = [k \in DOMAIN eners |->
                  [name |-> TsOutName(k - 1), ener |-> eners[k]]]
  /\ r_ener_list = <<>> /\ p_ener_list = <<>> /\ nslabs = 0
  /\ tss = <<>> /\ tsIdx = 1
  /\ activation_barriers = <<>>
  /\ rpc = "start" /\ rerror = "none"

\* get_lowest_species_ener, lines 233-263
get_lowest_species_ener(species) == Min(outFiles[species])

\* get_ts_out_files, lines 265-284: the names, sorted
get_ts_out_files == Sorted(listdir(tsOut))

\* format_TS_name, lines 316-335, and get_ts_ener, lines 207-231
TssOf(names) ==
  [k \in DOMAIN names |->
     [ener |-> Entry(tsOut, names[k]).ener, name |-> SplitHead(names[k])]]

\* get_barrier, lines 113-117: get_data, get_ts_ener, format_TS_name
BarrierStart ==
  /\ rpc = "start"
  /\ r_ener_list' = [k \in DOMAIN reactants_list |->
                       get_lowest_species_ener(reactants_list[k])]
  /\ p_ener_list' = [k \in DOMAIN products_list |->
                       get_lowest_species_ener(products_list[k])]
  /\ nslabs' = Abs(Len(products_list) - Len(reactants_list))
  /\ tss' = TssOf(get_ts_out_files)
  /\ tsIdx' = 1
  /\ activation_barriers' = <<>>
  /\ rpc' = "loop"
  /\ UNCHANGED <<tsVars, xtbVars, showVars, slabVars, reactants_list, products_list,
                 outFiles, slab_ener, tsOut, rerror>>

\* 23.06035 * 4.184 = 96.4845044 kJ/mol per eV, in units of 1e-4; the
\* digits cut off only make a value that ends in 5 here round upwards
EvToKjmol == 964845

\* '{:.2f}'.format(e * ev_to_kjmol) for a whole number e of eV
Format2f(e) ==
  LET cents == (Abs(e) * EvToKjmol + 50) \div 100
      body == Str(cents \div 100) \o <<".">> \o zfill(Str(cents % 100), 2)
  IN  IF e < 0 THEN <<"-">> \o body ELSE body

\* lines 122-132: the branch taken and the barrier (eV) it computes
BarrierOf(ts_ener, r_list, p_list, slab, n) ==
  IF Len(p_list) >= Len(r_list)
  THEN [err |-> "none", ev |-> ts_ener - SumOf(r_list)]
  ELSE IF Len(p_list) < Len(r_list)
  THEN [err |-> "none", ev |-> ts_ener + slab * n - SumOf(r_list)]
  ELSE [err |-> "NotImplementedError", ev |-> 0]

\* lines 118-132: one iteration of the loop over the transition states
BarrierStep ==
  /\ rpc = "loop"
  /\ tsIdx <= Len(tss)
  /\ \E b \in {BarrierOf(tss[tsIdx].ener, r_ener_list, p_ener_list,
                          slab_ener, nslabs)} :
       IF b.err # "none"
       THEN /\ rerror' = b.err
            /\ rpc' = "failed"
            /\ UNCHANGED <<activation_barriers, tsIdx>>
       ELSE /\ activation_barriers' =
                 DictSet(activation_barriers,
                         <<"T", "S", "_">> \o tss[tsIdx].name,
                         Format2f(b.ev))
            /\ tsIdx' = tsIdx + 1
            /\ UNCHANGED <<rpc, rerror>>
  /\ UNCHANGED <<tsVars, xtbVars, showVars, slabVars, reactants_list, products_list,
                 outFiles, slab_ener, tsOut, r_ener_list, p_ener_list, nslabs,
                 tss>>

\* line 133: return activation_barriers
BarrierReturn ==
  /\ rpc = "loop"
  /\ tsIdx > Len(tss)
  /\ rpc' = "done"
  /\ UNCHANGED <<tsVars, xtbVars, showVars, slabVars, reactants_list, products_list,
                 outFiles, slab_ener, tsOut, r_ener_list, p_ener_list, nslabs,
                 tss, tsIdx, activation_barriers, rerror>>

NextRes ==
  \/ BarrierStart
  \/ BarrierStep
  \/ BarrierReturn

SpecRes == InitRes /\ [][NextRes]_vars

\* --------------------------------------------------- big-slab job script
\* 00_template_set_up_big_slab_opt.py after its fields have been filled in
Cu111 == <<"C", "u", "_", "1", "1", "1">>

\* line 19: facetpath + '_00_big_slab_opt'
BigSlabWorkflow(fp) ==
  fp \o <<"_", "0", "0", "_", "b", "i", "g", "_", "s", "l", "a", "b", "_",
          "o", "p", "t">>

\* line 20: facetpath + '_00_'
DependencyWorkflow(fp) == fp \o <<"_", "0", "0", "_">>

\* workflows of the jobs the table may hold when the script starts: an
\* earlier big-slab job and a job of the next stage
SlabWorkflows == {BigSlabWorkflow(Cu111), Cu111 \o <<"_", "0", "1">>}

\* the tables tried
SlabDbs ==
  UNION {[1..n -> JobStates \X SlabWorkflows] : n \in 0..MaxJobs}

InitSlab ==
  /\ TsInit(<<rxOHdiss>>, 180, EmptyDir, TRUE, <<>>, <<>>)
  /\ XtbIdle /\ ShowIdle /\ ResIdle
  /\ facetpath = Cu111
  /\ namesBound \in BOOLEAN
  /\ \E db \in SlabDbs :
       balsamDb = [k \in DOMAIN db |-> BalsamJob(db[k][1], db[k][2], k)]
  /\ workflow_name = <<>> /\ dependency_workflow_name = <<>>
  /\ pending_simulations = [evaluated |-> FALSE, rows |-> <<>>]
  /\ job_to_add = 0 /\ depIdx = 1 /\ dependencies = <<>>
  /\ spc = "start" /\ serror = "none"

slabIn == <<facetpath, namesBound>>

\* lines 19-24: the two names, and the QuerySet
\* filter(workflow__contains=...).exclude(state="JOB_FINISHED"); building a
\* QuerySet reads nothing from the table
SlabQuery ==
  /\ spc = "start"
  /\ workflow_name' = BigSlabWorkflow(facetpath)
  /\ dependency_workflow_name' = DependencyWorkflow(facetpath)
  /\ pending_simulations' = [evaluated |-> FALSE, rows |-> <<>>]
  /\ spc' = "create"
  /\ UNCHANGED <<tsVars, xtbVars, showVars, resVars, slabIn, balsamDb,
                 job_to_add, depIdx, dependencies, serror>>

\* lines 27-37: BalsamJob(name=py_script, workflow=workflow_name, ...) and
\* job_to_add.save(); the template binds none of py_script, py_script_dir
\* and job_dir, so the constructor call raises NameError unless the script
\* was given them; a saved job is in state CREATED
SlabSave ==
  /\ spc = "create"
  /\ IF namesBound
     THEN /\ balsamDb' = Append(balsamDb,
                                BalsamJob("CREATED", workflow_name,
                                          Len(balsamDb) + 1))
          /\ job_to_add' = Len(balsamDb) + 1
          /\ spc' = "iterate"
          /\ UNCHANGED serror
     ELSE /\ serror' = "NameError"
          /\ spc' = "failed"
          /\ UNCHANGED <<balsamDb, job_to_add>>
  /\ UNCHANGED <<tsVars, xtbVars, showVars, resVars, slabIn, workflow_name,
                 dependency_workflow_name, pending_simulations, depIdx,
                 dependencies>>

\* the rows of the QuerySet of lines 22-24 over the table db, by job number
Evaluate(db, contains) ==
  SelectSeq([k \in DOMAIN db |-> k],
            LAMBDA k : /\ Contains(db[k].workflow, contains)
                       /\ db[k].state # "JOB_FINISHED")

\* line 40: "for job in pending_simulations" evaluates the QuerySet, on
\* the table as it is now
SlabIterate ==
  /\ spc = "iterate"
  /\ pending_simulations' =
       [evaluated |-> TRUE,
        rows |-> Evaluate(balsamDb, dependency_workflow_name)]
  /\ depIdx' = 1
  /\ spc' = "loop"
  /\ UNCHANGED <<tsVars, xtbVars, showVars, resVars, slabIn, balsamDb,
                 workflow_name, dependency_workflow_name, job_to_add,
                 dependencies, serror>>

\* line 41: add_dependency(job, job_to_add)  # parent, child
SlabAddDependency ==
  /\ spc = "loop"
  /\ depIdx <= Len(pending_simulations.rows)
  /\ dependencies' =
       Append(dependencies, <<pending_simulations.rows[depIdx], job_to_add>>)
  /\ depIdx' = depIdx + 1
  /\ UNCHANGED <<tsVars, xtbVars, showVars, resVars, slabIn, balsamDb,
                 workflow_name, dependency_workflow_name,
                 pending_simulations, job_to_add, spc, serror>>

\* the script ends
SlabReturn ==
  /\ spc = "loop"
  /\ depIdx > Len(pending_simulations.rows)
  /\ spc' = "done"
  /\ UNCHANGED <<tsVars, xtbVars, showVars, resVars, slabIn, balsamDb,
                 workflow_name, dependency_workflow_name,
                 pending_simulations, job_to_add, depIdx, dependencies,
                 serror>>

NextSlab ==
  \/ SlabQuery
  \/ SlabSave
  \/ SlabIterate
  \/ SlabAddDependency
  \/ SlabReturn

SpecSlab == InitSlab /\ [][NextSlab]_vars

\* ------------------------------------------------------------------- claims
\* the states of a call in which prepare_react_list has returned
AfterResolve == pc \in {"rule", "place", "symm", "remove", "rename", "done"}

\* the states of a call in which the placement rule has been applied
AfterRule == pc \in {"place", "symm", "remove", "rename", "done"}

\* the states in which TS_placer has returned and nothing is deleted yet
PlacerReturned == pc = "symm"

Ceil360(r) == (360 + r - 1) \div r

\* C1: TS_placer enumerates ceil(360 / rotAngle) orientations, and when
\* every orientation returned S sites it has written exactly
\* S * ceil(360 / rotAngle) files, each structure under its own sequence
\* number.
C1_CandidateCount ==
  PlacerReturned =>
    /\ count = Ceil360(rotAngle)
    /\ \A S \in 0..MaxSites :
         (\A k \in 1..count : siteTab[k] = S) =>
           /\ Cardinality(Names(dir)) = S * Ceil360(rotAngle)
           /\ Cardinality({dir[k].id : k \in DOMAIN dir})
                = S * Ceil360(rotAngle)

\* position (from 1) of the k-th member of the set of positions P
KthOf(P, k) == CHOOSE i \in P : Cardinality({j \in P : j < i}) = k - 1

\* symmetry class of the structure at position i of geomlist
ClassAt(i) == Entry(dir, geomlist[i]).cls

\* positions of geomlist that checkSymmBeforeXTB reported
Reported == {i \in DOMAIN geomlist :
               zfill(Str(i - 1), PadWidth) \in Range(notunique_index)}

\* C2: a structure is reported as a duplicate exactly when an earlier
\* structure of the sorted listing is equivalent to it, and the structures
\* not reported are the accumulated unique list, in listing order.
C2_DedupMonotone ==
  (pc = "remove" /\ rmIdx = 1) =>
    /\ \A i \in DOMAIN geomlist :
         (i \in Reported) <=> (\E j \in 1..(i - 1) : ClassAt(j) = ClassAt(i))
    /\ Len(good_adsorbate) = Cardinality(DOMAIN geomlist \ Reported)
    /\ \A k \in DOMAIN good_adsorbate :
         good_adsorbate[k] = ClassAt(KthOf(DOMAIN geomlist \ Reported, k))

\* a later duplicate of an earlier structure, followed by a unique structure
C2_Witness ==
  /\ pc = "remove" /\ rmIdx = 1
  /\ \E i, j, m \in DOMAIN geomlist :
       /\ j < i /\ i < m
       /\ ClassAt(j) = ClassAt(i)
       /\ i \in Reported /\ j \notin Reported /\ m \notin Reported

\* names 000.., one per file of the renumbering listing
ContiguousNames == {CandName(p - 1, rxn_name) : p \in DOMAIN listing}

\* C3: after filtered_out_equiv_ts_estimate the files are named
\* 000_<rxn>.xyz .. (k-1)_<rxn>.xyz, k the number of survivors, and the
\* p-th name holds the p-th survivor of the sorted listing.
C3_Renumbered ==
  pc = "done" =>
    /\ Names(dir) = ContiguousNames
    /\ \A p \in DOMAIN listing :
         Entry(dir, CandName(p - 1, rxn_name)).id = origIds[p]

\* C4: the directory is empty when generation starts, whatever it held, and
\* a second call with the same inputs leaves the file names of the first.
C4_Idempotent ==
  /\ pc = "parse" => (dirExists /\ dir = EmptyDir)
  /\ (pc = "done" /\ run >= 2) => Names(dir) = firstNames

\* a second call has finished over the files the first call left
C4_Witness ==
  /\ pc = "done" /\ run = 2
  /\ Cardinality(firstNames) >= 2
  /\ Cardinality(firstNames) < nWritten

\* C5: the name written for sequence number n gives back n and the
\* reaction name: n from its first three characters and from the part
\* before the first '_', the rest of the name from the fourth character on.
C5_NameRoundTrip ==
  (pc = "place" /\ count >= 1) =>
    \A i \in 0..(siteTab[count] - 1) :
      LET n == SeqNumber(i, siteTab[count], count - 1)
          name == CandName(n, rxn_name)
      IN  /\ IntOf(SplitHead(name)) = n
          /\ IntOf(Take(name, PadWidth)) = n
          /\ Drop(name, PadWidth) = <<"_">> \o rxn_name \o XyzExt

\* C6: when a listed duplicate did not exist, the call goes on, every
\* listed duplicate is gone from the directory before the renumbering, and
\* the renumbering leaves the names 000.. without gaps.
C6_MissingDuplicateSkipped ==
  Len(rmErrors) > 0 =>
    /\ pc # "failed"
    /\ (pc = "rename" /\ renIdx = 1) =>
         \A k \in DOMAIN notunique_index :
           ~Exists(dir, FileToRemove(notunique_index[k], rxn_name))
    /\ pc = "done" => Names(dir) = ContiguousNames

\* C7: a failure on one reaction entry does not keep the other entries
\* from being processed.
C7_FailureSkipsOneReaction ==
  error \in {"ParseError", "UnknownSpeciesError"} =>
    \A k \in DOMAIN reactions :
      reactions[k].fail = "none" => k < rxnIdx

\* C8: isomorphic species get the same minima-lookup key.
C8_IsomorphicSameKey ==
  AfterResolve =>
    \A i, j \in DOMAIN symbols_list :
      is_isomorphic((reactants \o products)[i], (reactants \o products)[j])
        => symbols_list[i] = symbols_list[j]

\* C9: the side is "reactants" exactly when the reaction has fewer reactant
\* than product species, "products" otherwise.
C9_SmallerSide ==
  AfterResolve =>
    /\ rpDir = "reactants" <=> Len(reactants) < Len(products)
    /\ rpDir = "products" <=> Len(reactants) >= Len(products)

\* a tie, resolved towards the products
C9_Witness ==
  AfterResolve /\ Len(reactants) = Len(products) /\ rpDir = "products"

\* C10: exactly one base reorientation and exactly one bond stretch are
\* applied to TS_candidate before the enumeration starts.
C10_OneRuleApplied ==
  AfterRule =>
    /\ NumOps(placeOps, "rotate") = 1
    /\ NumOps(placeOps, "set_distance") = 1

\* files of kind in the subdirectory d
InCalc(d, kind) == {g \in calc : g.dir = d /\ g.kind = kind}

\* C11: every file of a per-candidate subdirectory lies in a directory that
\* exists and is named by the candidate's index; a geometry is inside a
\* subdirectory only when its job file and its preview are there already;
\* and when set_up_penalty_xtb returns no .xyz is left at the top level
\* and every candidate has its subdirectory with one job file holding a
\* bond per tracked species and both distances, one preview, one geometry.
C11_JobFilesEmitted ==
  /\ \A g \in calc :
       /\ Exists(dir, g.dir) /\ Entry(dir, g.dir).kind = "dir"
       /\ g.dir = SplitHead(g.name)
       /\ g.kind = "xyz" =>
            /\ \E j \in InCalc(g.dir, "py") : j.name = Stem(g.name) \o PyExt
            /\ \E i \in InCalc(g.dir, "png") : i.name = Stem(g.name) \o PngExt
  /\ xpc = "done" =>
       /\ GlobXyz(dir) = <<>>
       /\ Len(dir) = Len(geomTab)
       /\ {g.id : g \in {h \in calc : h.kind = "xyz"}}
            = {k - 1 : k \in DOMAIN geomTab}
       /\ \A k \in DOMAIN dir :
            /\ dir[k].kind = "dir"
            /\ Cardinality(InCalc(dir[k].name, "py")) = 1
            /\ Cardinality(InCalc(dir[k].name, "png")) = 1
            /\ Cardinality(InCalc(dir[k].name, "xyz")) = 1
            /\ \A j \in InCalc(dir[k].name, "py") :
                 Len(j.bonds) = Len(species_list) /\ Len(j.avDists) = 2

\* two candidates went through the loop
C11_Witness ==
  /\ xpc = "done"
  /\ Len(geomTab) = 2
  /\ Cardinality(calc) = 6

\* the symbol the claim gives for a species
MappedSymbol(species) ==
  IF Len(species) = 1 THEN species
  ELSE IF species = sCH3O \/ species = sCH2O THEN <<"O">>
  ELSE <<Head(species)>>

\* C12: get_av_dist scans the directory named by the species as given,
\* for 'O' when the species is CH3O or CH2O, for the first character of
\* any other longer symbol, for the symbol itself when it is one character.
C12_AvDistSymbol ==
  \A k \in DOMAIN avScan :
    /\ avScan[k].path = species_list[k]
    /\ avScan[k].sym = MappedSymbol(species_list[k])

\* a distance was produced for CH3O from the oxygen lines, and the second
\* species went unchanged
C12_Witness ==
  /\ Len(avDists) = 2
  /\ species_list[1] = sCH3O /\ avScan[1].sym = sO /\ avScan[1].path = sCH3O
  /\ avScan[2].sym = species_list[2]

\* C13: for every tracked species the index functions scan for the symbol
\* get_av_dist scanned for, and in every job file the adsorbate atom of a
\* bond is of the element its target distance was averaged for.
C13_SameSymbolForIndices ==
  /\ \A k \in DOMAIN avScan :
       AdatomSymbol(species_list[k]) = avScan[k].sym
  /\ \A g \in calc :
       g.kind = "py" =>
         \A k \in DOMAIN g.avDists :
           geomTab[g.id + 1][g.bonds[k][1] + 1].sym = avScan[k].sym

\* the directory of the k-th tracked species holds no reference structure
ZeroRefs(k) ==
  \/ ~minima[species_list[k]].exists
  \/ \A f \in Range(minima[species_list[k]].files) :
        ~EndsWith(f.name, TrajExt) /\ ~EndsWith(f.name, FinalXyzExt)

\* C14: when a tracked species has no reference structure the call ends
\* with an error, no distance is produced for that species, and
\* TS_estimate is as it was: no subdirectory, no job file, every candidate
\* still at the top level.
C14_NoReferenceNoJobs ==
  (xpc \notin {"idle", "start"} /\ \E k \in 1..2 : ZeroRefs(k)) =>
    /\ xpc = "failed" /\ xerror # "none"
    /\ \A k \in 1..2 : ZeroRefs(k) => Len(avDists) < k
    /\ calc = {}
    /\ dir \in {CandDir(Len(geomTab), png) : png \in BOOLEAN}

\* the first species has references, the second has an empty directory,
\* and there are candidates waiting
C14_Witness ==
  /\ xpc = "failed" /\ xerror = "UnboundLocalError"
  /\ ~ZeroRefs(1) /\ ZeroRefs(2) /\ minima[species_list[2]].exists
  /\ Len(avDists) = 1
  /\ Len(geomTab) >= 1

\* index (from 1) of the first atom of conf that is of element sym
FirstAtomOf(conf, sym) ==
  CHOOSE i \in DOMAIN conf :
    /\ conf[i].sym = sym
    /\ \A j \in 1..(i - 1) : conf[j].sym # sym

\* distance from the first atom of element sym to the nearest Cu atom of
\* the same structure
OwnMin(conf, sym) ==
  LET a == conf[FirstAtomOf(conf, sym)].x
      ds == {Abs(conf[j].x - a) : j \in {i \in DOMAIN conf : conf[i].sym = Cu}}
  IN  CHOOSE m \in ds : \A d \in ds : m <= d

\* C17: every distance returned by get_av_dist is the mean over the
\* reference structures of the species of the structure's own minimum
\* adsorbate-surface distance, times scfactor_surface exactly when scaled.
C17_AvDistOwnMinimum ==
  \A k \in DOMAIN avDists :
    LET confs == FinalConfs(minima[species_list[k]].files)
        own == SumOf([c \in DOMAIN confs |-> OwnMin(confs[c], avScan[k].sym)])
        sc == IF k = 1 THEN scaled1 ELSE scaled2
    IN  avDists[k].num * Len(confs) * (IF sc THEN 10 ELSE 1)
          = own * (IF sc THEN scfactor_surface ELSE 1) * avDists[k].den

\* atoms (indices from 0) of the current candidate that match species k
Matches(k) ==
  {i \in 0..(Len(GeomConf) - 1) :
     /\ GeomConf[i + 1].sym # Cu
     /\ Head(species_list[k]) \in Range(GeomConf[i + 1].sym)}

SurfaceAtoms == {j \in 0..(Len(GeomConf) - 1) : GeomConf[j + 1].sym = Cu}

Dist(i, j) == Abs(GeomConf[i + 1].x - GeomConf[j + 1].x)

\* C18: the adsorbate index of a bond is the lowest matching atom, the
\* surface index is a Cu atom at minimal distance from it, the lowest
\* such atom when several are equally near.
C18_NearestSurfaceAtom ==
  xpc \in {"makedirs", "png", "job", "move"} =>
    \A k \in DOMAIN bonds :
      /\ bonds[k][1] \in Matches(k)
      /\ \A i \in Matches(k) : bonds[k][1] <= i
      /\ bonds[k][2] \in SurfaceAtoms
      /\ \A j \in SurfaceAtoms :
           \/ Dist(bonds[k][1], bonds[k][2]) < Dist(bonds[k][1], j)
           \/ /\ Dist(bonds[k][1], bonds[k][2]) = Dist(bonds[k][1], j)
              /\ bonds[k][2] <= j

\* several hydrogen lines match and the first of them is equally far from
\* both surface atoms
C18_Witness ==
  /\ xpc = "makedirs"
  /\ \E k \in DOMAIN bonds :
       /\ Cardinality(Matches(k)) >= 2
       /\ \E j \in SurfaceAtoms :
            /\ j # bonds[k][2]
            /\ Dist(bonds[k][1], j) = Dist(bonds[k][1], bonds[k][2])

\* C15: not_finished prints a line for every job that is not JOB_FINISHED,
\* and as many lines as how_many_still_running counts jobs.
C15_AllUnfinishedShown ==
  /\ "not_finished" \in called =>
       \A k \in DOMAIN ase_jobs :
         ase_jobs[k].state # "JOB_FINISHED" =>
           \E p \in DOMAIN printed :
             printed[p] = Line(ase_jobs[k].state, ase_jobs[k].workflow,
                               ase_jobs[k].name)
  /\ called = {"not_finished", "how_many_still_running"} =>
       Len(printed) = running

\* C16: when the deletions are over, the files left are exactly the files
\* of the sorted listing that checkSymmBeforeXTB did not find equivalent to
\* an earlier one: every deleted file was a duplicate and every duplicate
\* is deleted.
C16_DeletedAreDuplicates ==
  (pc = "remove" /\ rmIdx > Len(notunique_index)) =>
    Names(dir) = {geomlist[i] : i \in {j \in DOMAIN geomlist : ~result_list[j]}}

\* what the resolver returns, lines 127
Returned ==
  [r_name_list |-> r_name_list, p_name_list |-> p_name_list,
   rxn_name |-> rxn_name, rpDir |-> rpDir]

\* the lists, the name and the side of one reaction entry taken alone
OwnResult(rxn) ==
  [r_name_list |-> NameList(rxn.reactant),
   p_name_list |-> NameList(rxn.product),
   rxn_name |-> JoinPlus(NameList(rxn.reactant)) \o <<"_">>
                  \o JoinPlus(NameList(rxn.product)),
   rpDir |-> IF Len(rxn.reactant) < Len(rxn.product) THEN "reactants"
             ELSE "products"]

\* C19: the resolver gives, for every reaction entry of the document, the
\* species lists, the name and the side of that entry, whatever entries
\* follow it.
C19_PerReactionResult ==
  AfterResolve =>
    \A k \in DOMAIN reactions :
      reactions[k].fail = "none" => Returned = OwnResult(reactions[k])

\* the barriers get_barrier returned are those of the expression ev(ts)
ReturnedBarriers(ev(_)) ==
  /\ rerror = "none"
  /\ Len(activation_barriers) = Len(tss)
  /\ \A k \in DOMAIN tss :
       activation_barriers[k][2] = Format2f(ev(tss[k].ener))

\* C20: with as many products as reactants get_barrier raises
\* NotImplementedError for the first transition state; with more products the barriers are
\* ts - sum(reactants); with fewer they are
\* ts + slab * nslabs - sum(reactants).
C20_BarrierBranches ==
  rpc \in {"done", "failed"} =>
    /\ (Len(products_list) = Len(reactants_list) /\ Len(tss) >= 1) =>
         rerror = "NotImplementedError"
    /\ Len(products_list) > Len(reactants_list) =>
         ReturnedBarriers(LAMBDA ts : ts - SumOf(r_ener_list))
    /\ Len(products_list) < Len(reactants_list) =>
         ReturnedBarriers(LAMBDA ts : ts + slab_ener * nslabs
                                        - SumOf(r_ener_list))

\* TS_candidate is the structure molecule() builds for the first reactant
FromFirstReactant ==
  /\ Len(r_name_list) >= 1
  /\ TS_candidate = MoleculeOf(r_name_list[1])

\* TS_candidate is images[2], and that image is one of the products
FromProductImage ==
  /\ Len(images) >= 3
  /\ TS_candidate = images[3]
  /\ \E k \in DOMAIN products : products[k] = images[3]

\* C21: the side prepare_react_list reports is the side TS_placer builds
\* TS_candidate from, for every pair of species counts: "reactants" exactly
\* when TS_candidate comes from the first reactant, "products" exactly
\* when it is the product image.
C21_FlagMatchesPlacer ==
  AfterRule =>
    /\ rpDir = "reactants" <=> FromFirstReactant
    /\ rpDir = "products" <=> FromProductImage

\* the contents (file ids) a directory holds
Contents(d) == {d[k].id : k \in DOMAIN d}

\* C22: the renumbering pass loses no surviving candidate: the rename about
\* to be made never targets a name held by a survivor that is still to be
\* renamed, and during and after the pass the directory holds as many
\* files as the listing, one for every survivor's content.
C22_NoSurvivorLost ==
  /\ (pc = "rename" /\ renIdx <= Len(listing)) =>
       \A later \in (renIdx + 1)..Len(listing) :
         listing[later] # NewName(renIdx - 1, listing[renIdx])
  /\ pc \in {"rename", "done"} =>
       /\ Len(dir) = Len(listing)
       /\ Contents(dir) = Range(origIds)

====
